---- MODULE Spec2Model ----
(***************************************************************************)
(* Model of booking_backend.py: the slot engine (get_free_slots), the      *)
(* availability query (GET /api/available-slots) and the booking command   *)
(* (POST /api/book-slots) against a shared calendar.                       *)
(*                                                                         *)
(* Time is counted in minutes.  A date is a day number; a datetime is a    *)
(* record [date, tod, off, aware]: wall-clock date and minute of the day,  *)
(* the UTC offset of its tzinfo, and whether it carries a tzinfo at all    *)
(* (an all-day calendar entry parses to a naive datetime).                 *)
(***************************************************************************)
EXTENDS Integers, Sequences, FiniteSets

VARIABLES
    now,         \* the clock: the current instant, minutes since day 0 00:00 UTC
    calendar,    \* the events the calendar service holds, in insertion order
    busy_slots,  \* get_available_slots: the busy list of the request just answered
    avail,       \* get_available_slots: the response of the request just answered
    book         \* book_slots: per client, the handler's locals and its response

vars == <<now, calendar, busy_slots, avail, book>>

----------------------------------------------------------------------------
(* Bounds of the model *)

MaxEvents == 2        \* events the calendar holds at most
MaxTicks == 2         \* clock steps taken at most
MaxSlots == 2         \* slots in one booking request at most

----------------------------------------------------------------------------
(* datetime arithmetic *)

MinutesPerDay == 24 * 60

\* datetime.timezone(datetime.timedelta(hours=5, minutes=30))
ist_tz == [off |-> 5 * 60 + 30, aware |-> TRUE]

utc_tz == [off |-> 0, aware |-> TRUE]

\* tzinfo None
no_tz == [off |-> 0, aware |-> FALSE]

\* datetime.datetime.combine(day, time, tzinfo=tz)
combine(day, tod, tz) ==
    [date |-> day, tod |-> tod, off |-> tz.off, aware |-> tz.aware]

\* dt.tzinfo
tzinfo(dt) == [off |-> dt.off, aware |-> dt.aware]

\* dt + datetime.timedelta(minutes=m): wall-clock addition, same tzinfo
plus(dt, m) ==
    [dt EXCEPT !.date = dt.date + ((dt.tod + m) \div MinutesPerDay),
               !.tod = (dt.tod + m) % MinutesPerDay]

\* the instant a datetime denotes (for a naive one: its wall clock)
Instant(dt) == dt.date * MinutesPerDay + dt.tod - dt.off

\* the aware datetime of an instant in the zone tz (astimezone)
astimezone(instant, tz) ==
    [date |-> (instant + tz.off) \div MinutesPerDay,
     tod |-> (instant + tz.off) % MinutesPerDay,
     off |-> tz.off, aware |-> tz.aware]

\* Python raises TypeError when an aware datetime is compared to a naive one
Comparable(a, b) == a.aware = b.aware

\* a < b, a <= b, a >= b on comparable datetimes
Lt(a, b) == Instant(a) < Instant(b)

Le(a, b) == Instant(a) <= Instant(b)

Ge(a, b) == Instant(a) >= Instant(b)

\* datetime.datetime.now(datetime.timezone.utc).date()
utc_date(instant) == instant \div MinutesPerDay

----------------------------------------------------------------------------
(* Configuration *)

\* WORK_HOURS: (start, end) minute of the day of each block
WORK_HOURS ==
    << <<7 * 60, 13 * 60>>, <<15 * 60, 18 * 60>>, <<19 * 60, 23 * 60>> >>

\* datetime.timedelta(hours=1): the length of a slot
SlotMinutes == 60

\* datetime.timedelta(hours=2): the minimum lead time
MinLeadMinutes == 120

\* range(8): today and the next seven days
NumDays == 8

----------------------------------------------------------------------------
(* Strings on the wire *)

\* dt.strftime('%H:%M'): the wall clock alone, the date and the offset are dropped
strftime_HM(dt) == [h |-> dt.tod \div 60, m |-> dt.tod % 60]

\* f"{start:%H:%M}-{end:%H:%M}": the range string, held as its '-'-separated parts
slot_time(slot_start, slot_end) == <<strftime_HM(slot_start), strftime_HM(slot_end)>>

\* day.strftime('%Y-%m-%d')
strftime_date(day) == [valid |-> TRUE, day |-> day]

----------------------------------------------------------------------------
(* get_free_slots *)

\* current_time_ist + timedelta(hours=2)
min_bookable_time_utcnow_as_ist(current_time_utc) ==
    plus(combine(current_time_utc \div MinutesPerDay,
                 current_time_utc % MinutesPerDay, ist_tz), MinLeadMinutes)

min_bookable_time(current_time_utc) ==
    plus(astimezone(current_time_utc, ist_tz), MinLeadMinutes)

\* the timezone of the grid: that of the first busy event, IST when there is none
calendar_tz(busy_events) ==
    IF busy_events # << >> THEN tzinfo(busy_events[1].start) ELSE ist_tz

IsSameDay(ev, day) == ev.start.date = day

\* the busy events whose start date is the day
day_busy_events(day, busy_events) ==
    SelectSeq(busy_events, LAMBDA ev : IsSameDay(ev, day))

\* current_slot_start < busy_end and current_slot_end > busy_start
has_overlap_closed(slot_start, slot_end, busy) ==
    Le(slot_start, busy.end) /\ Le(busy.start, slot_end)

has_overlap_contained(slot_start, slot_end, busy) ==
    Le(busy.start, slot_start) /\ Le(slot_end, busy.end)

has_overlap(slot_start, slot_end, busy) ==
    Lt(slot_start, busy.end) /\ Lt(busy.start, slot_end)

\* the loop over day_busy_events, from its k-th element on:
\* "busy" at the first overlap, "raise" at a naive/aware comparison, else "free"
RECURSIVE is_free(_, _, _, _)
is_free(slot_start, slot_end, busy, k) ==
    IF k > Len(busy) THEN "free"
    ELSE IF ~Comparable(slot_start, busy[k].end) THEN "raise"
    ELSE IF has_overlap(slot_start, slot_end, busy[k]) THEN "busy"
    ELSE is_free(slot_start, slot_end, busy, k + 1)

\* the while loop of one work-hours block, from current_slot_start on
RECURSIVE walk_slots(_, _, _, _, _)
walk_slots(current_slot_start, work_end, min_bookable, busy, acc) ==
    LET current_slot_end == plus(current_slot_start, SlotMinutes) IN
    IF ~Le(current_slot_end, work_end) THEN [raised |-> FALSE, slots |-> acc]
    ELSE IF ~Comparable(current_slot_start, min_bookable)
        THEN [raised |-> TRUE, slots |-> acc]
    ELSE IF ~Ge(current_slot_start, min_bookable)
        THEN walk_slots(current_slot_end, work_end, min_bookable, busy, acc)
    ELSE LET free == is_free(current_slot_start, current_slot_end, busy, 1) IN
        IF free = "raise" THEN [raised |-> TRUE, slots |-> acc]
        ELSE walk_slots(current_slot_end, work_end, min_bookable, busy,
                 IF free = "free"
                 THEN Append(acc, slot_time(current_slot_start, current_slot_end))
                 ELSE acc)

\* the for loop over WORK_HOURS, from its w-th block on
RECURSIVE walk_work_hours(_, _, _, _, _, _)
walk_work_hours(w, day, tz, min_bookable, busy, acc) ==
    IF w > Len(WORK_HOURS) THEN [raised |-> FALSE, slots |-> acc]
    ELSE LET work_start == combine(day, WORK_HOURS[w][1], tz)
             work_end == combine(day, WORK_HOURS[w][2], tz)
             r == walk_slots(work_start, work_end, min_bookable, busy, acc)
         IN IF r.raised THEN r
            ELSE walk_work_hours(w + 1, day, tz, min_bookable, busy, r.slots)

\* get_free_slots(day, busy_events), the clock read as current_time_utc:
\* the list of range strings, or raised when a comparison raises TypeError
get_free_slots(day, busy_events, current_time_utc) ==
    walk_work_hours(1, day, calendar_tz(busy_events),
                    min_bookable_time(current_time_utc),
                    day_busy_events(day, busy_events), << >>)

----------------------------------------------------------------------------
(* The calendar service *)

\* an event with a timed range: start.dateTime / end.dateTime with a UTC offset
TimedEvent(d1, t1, d2, t2, tz) ==
    [start |-> combine(d1, t1, tz), end |-> combine(d2, t2, tz)]

\* an all-day event: start.date / end.date, the end date exclusive
AllDayEvent(d) ==
    [start |-> combine(d, 0, no_tz), end |-> combine(d + 1, 0, no_tz)]

\* events().list(timeMin, timeMax, singleEvents, orderBy="startTime"): the events
\* that end after timeMin and start before timeMax, ordered by start; the order
\* of events that start together is the service's choice (an all-day event is
\* placed by the 00:00 UTC of its dates)
events_list(cal, time_min, time_max) ==
    LET hits == {k \in 1..Len(cal) :
                    Instant(cal[k].end) > time_min /\ Instant(cal[k].start) < time_max}
        n == Cardinality(hits)
        orders == {p \in [1..n -> hits] :
                    /\ \A i, j \in 1..n : i # j => p[i] # p[j]
                    /\ \A i \in 1..n : i < n =>
                           Instant(cal[p[i]].start) <= Instant(cal[p[i + 1]].start)}
    IN {[i \in 1..n |-> cal[p[i]]] : p \in orders}

----------------------------------------------------------------------------
(* get_available_slots *)

\* today + datetime.timedelta(days=7): the last day of the fetched range
HorizonDays == 7

\* start_of_range: today 00:00 UTC
start_of_range(today) == Instant(combine(today, 0, utc_tz))

\* end_of_range: today + 7 days, 23:59 UTC
end_of_range(today) == Instant(combine(today + HorizonDays, 23 * 60 + 59, utc_tz))

\* fromisoformat of each event's start and end: (start_dt, end_dt) per event
to_busy_slots(events) ==
    [i \in 1..Len(events) |-> [start |-> events[i].start, end |-> events[i].end]]

NoResponse == [status |-> 0, body |-> << >>]

ErrorResponse(code) == [status |-> code, body |-> << >>]

\* the sparse mapping: only the days that have free slots
include_every_day(free) ==
    [d \in DOMAIN free |-> [slots |-> free[d].slots]]

include_day_if_free(free) ==
    [d \in {x \in DOMAIN free : free[x].slots # << >>} |-> [slots |-> free[d].slots]]

\* the body of the handler after the fetch
available_slots_response(busy, current_time_utc) ==
    LET today == utc_date(current_time_utc)
        free == [d \in today..(today + NumDays - 1) |->
                    get_free_slots(d, busy, current_time_utc)]
    IN IF \E d \in DOMAIN free : free[d].raised
       THEN ErrorResponse(500)
       ELSE [status |-> 200, body |-> include_day_if_free(free)]

----------------------------------------------------------------------------
(* The environment: the clock and the other users of the calendar *)

\* the instants the clock may start at: day 0 23:30 UTC, that is day 1 05:00 IST,
\* and day 1 05:30 UTC, that is day 1 11:00 IST
StartNow == 23 * 60 + 30

StartTimes == {StartNow, MinutesPerDay + 5 * 60 + 30}

TickMinutes == 30

\* the events other users of the calendar may add; times are wall clock
ExternalEvents ==
    { TimedEvent(1, 8 * 60, 1, 9 * 60, ist_tz),          \* ends as the 09:00 slot starts
      TimedEvent(1, 10 * 60, 1, 11 * 60 + 1, ist_tz),    \* one minute into the 11:00 slot
      TimedEvent(0, 22 * 60 + 30, 1, 8 * 60, ist_tz),    \* overnight into day 1
      TimedEvent(1, 9 * 60, 1, 10 * 60, utc_tz),         \* given in UTC
      TimedEvent(2, 6 * 60, 2, 23 * 60 + 30, ist_tz),    \* covers day 2
      TimedEvent(2, 1 * 60, 2, 2 * 60, ist_tz),          \* day 2 in IST, day 1 in UTC
      TimedEvent(1, 23 * 60, 2, 2 * 60, utc_tz),         \* day 1 in UTC, into day 2
      AllDayEvent(1) }

Tick ==
    /\ \E s \in StartTimes : s <= now /\ now < s + MaxTicks * TickMinutes
    /\ now' = now + TickMinutes
    /\ avail' = NoResponse
    /\ busy_slots' = << >>
    /\ UNCHANGED <<calendar, book>>

AddEvent ==
    /\ Len(calendar) < MaxEvents
    /\ \E ev \in ExternalEvents : calendar' = Append(calendar, ev)
    /\ avail' = NoResponse
    /\ busy_slots' = << >>
    /\ UNCHANGED <<now, book>>

\* GET /api/available-slots, the fetch answered
GetAvailableSlots ==
    /\ \E events \in events_list(calendar, start_of_range(utc_date(now)),
                                  end_of_range(utc_date(now))) :
          /\ busy_slots' = to_busy_slots(events)
          /\ avail' = available_slots_response(to_busy_slots(events), now)
    /\ UNCHANGED <<now, calendar, book>>

\* GET /api/available-slots, the fetch failed
GetAvailableSlotsFailed ==
    /\ avail' = ErrorResponse(500)
    /\ busy_slots' = << >>
    /\ UNCHANGED <<now, calendar, book>>

----------------------------------------------------------------------------
(* book_slots *)

\* the clients; each posts one request, and the two requests may overlap in time
Clients == {"c1", "c2"}

\* time_range.split('-') unpacked into two names: ValueError unless two parts
split_ok(time_range) == Len(time_range) = 2

\* datetime.strptime(s, '%H:%M') accepts hours 0..23 and minutes 0..59
strptime_HM_ok(part) == part.h \in 0..23 /\ part.m \in 0..59

strptime_HM(part) == part.h * 60 + part.m

\* datetime.strptime(date_str, '%Y-%m-%d')
strptime_date_ok(date_str) == date_str.valid

strptime_date(date_str) == date_str.day

\* the parse of one requested slot: raised on any malformed part, else the
\* start and end datetimes, built in IST whatever zone the slot was listed in
parse_slot(slot) ==
    IF /\ split_ok(slot.time)
       /\ strptime_date_ok(slot.date)
       /\ strptime_HM_ok(slot.time[1])
       /\ strptime_HM_ok(slot.time[2])
    THEN [raised |-> FALSE,
          start_datetime |->
              combine(strptime_date(slot.date), strptime_HM(slot.time[1]), ist_tz),
          end_datetime |->
              combine(strptime_date(slot.date), strptime_HM(slot.time[2]), ist_tz)]
    ELSE [raised |-> TRUE,
          start_datetime |-> combine(0, 0, ist_tz),
          end_datetime |-> combine(0, 0, ist_tz)]

\* start_datetime < min_bookable_time
too_close(start_datetime, min_bookable) == Lt(start_datetime, min_bookable)

\* events().insert(...).execute(): the service adds the event, whatever it holds
events_insert_if_absent(cal, ev) ==
    IF \E k \in 1..Len(cal) : cal[k] = ev THEN cal ELSE Append(cal, ev)

events_insert(cal, ev) == Append(cal, ev)

IdleClient ==
    [pc |-> "idle", slots |-> << >>, i |-> 1, created |-> << >>, calls |-> << >>,
     min_bookable |-> combine(0, 0, ist_tz), status |-> 0, cause |-> "none"]

\* a return with an error from within the handler
error_return_and_continue(b, status, cause) ==
    [b EXCEPT !.i = @ + 1]

error_return(b, status, cause) ==
    [b EXCEPT !.pc = "done", !.status = status, !.cause = cause]

\* the slots a client may ask for
SlotChoices ==
    { [date |-> strftime_date(1), time |-> <<[h |-> 9, m |-> 0], [h |-> 10, m |-> 0]>>],
      [date |-> strftime_date(1), time |-> <<[h |-> 7, m |-> 0], [h |-> 8, m |-> 0]>>],
      [date |-> strftime_date(1), time |-> <<[h |-> 9, m |-> 0]>>],
      [date |-> [valid |-> FALSE, day |-> 0],
       time |-> <<[h |-> 9, m |-> 0], [h |-> 10, m |-> 0]>>] }

SlotLists == UNION {[1..n -> SlotChoices] : n \in 0..MaxSlots}

\* the request bodies a client may post: none, one without a student record,
\* and a student record with every slot list, the empty one included
Requests ==
    {[has_data |-> FALSE, has_student |-> FALSE, slots |-> << >>]}
    \cup {[has_data |-> TRUE, has_student |-> FALSE, slots |-> l] :
             l \in {x \in SlotLists : Len(x) = 1}}
    \cup {[has_data |-> TRUE, has_student |-> TRUE, slots |-> l] : l \in SlotLists}

\* events the running requests may still create
Outstanding ==
    LET left(c) == IF book[c].pc = "running"
                   THEN Len(book[c].slots) - book[c].i + 1 ELSE 0
    IN left("c1") + left("c2")

\* POST /api/book-slots: the request read and checked, the clock read
BookStart(c) ==
    /\ book[c].pc = "idle"
    /\ \E data \in Requests :
          /\ Len(calendar) + Outstanding + Len(data.slots) <= MaxEvents
          /\ book' = [book EXCEPT ![c] =
                IF ~data.has_data THEN error_return(IdleClient, 400, "no data")
                ELSE IF ~data.has_student \/ data.slots = << >>
                    THEN error_return(IdleClient, 400, "missing")
                ELSE [IdleClient EXCEPT !.pc = "running", !.slots = data.slots,
                                        !.min_bookable = min_bookable_time(now)]]
    /\ UNCHANGED <<now, calendar, busy_slots, avail>>

\* one turn of the loop over the slots, the create-event call answered
BookSlot(c) ==
    LET b == book[c]
        slot == b.slots[b.i]
        p == parse_slot(slot)
        cal == events_insert(calendar,
                   [start |-> p.start_datetime, end |-> p.end_datetime])
    IN /\ b.pc = "running"
       /\ b.i <= Len(b.slots)
       /\ IF p.raised
          THEN /\ book' = [book EXCEPT ![c] = error_return(b, 500, "malformed")]
               /\ UNCHANGED calendar
          ELSE IF too_close(p.start_datetime, b.min_bookable)
          THEN /\ book' = [book EXCEPT ![c] = error_return(b, 400, "lead")]
               /\ UNCHANGED calendar
          ELSE /\ calendar' = cal
               /\ book' = [book EXCEPT ![c] =
                     [b EXCEPT !.i = @ + 1,
                               !.calls = Append(@, b.i),
                               !.created = Append(@, [id |-> Len(cal),
                                                      date |-> slot.date,
                                                      time |-> slot.time])]]
       /\ UNCHANGED <<now, busy_slots, avail>>

\* one turn of the loop over the slots, the create-event call failed
BookSlotInsertFailed(c) ==
    LET b == book[c]
        p == parse_slot(b.slots[b.i])
    IN /\ b.pc = "running"
       /\ b.i <= Len(b.slots)
       /\ ~p.raised
       /\ ~too_close(p.start_datetime, b.min_bookable)
       /\ book' = [book EXCEPT ![c] =
             error_return([b EXCEPT !.calls = Append(@, b.i)], 500, "upstream")]
       /\ UNCHANGED <<now, calendar, busy_slots, avail>>

\* the loop is over: the success response
BookReturn(c) ==
    /\ book[c].pc = "running"
    /\ book[c].i > Len(book[c].slots)
    /\ book' = [book EXCEPT ![c] = [@ EXCEPT !.pc = "done", !.status = 200]]
    /\ UNCHANGED <<now, calendar, busy_slots, avail>>

----------------------------------------------------------------------------
(* Specifications *)

Init ==
    /\ now \in StartTimes
    /\ calendar = << >>
    /\ busy_slots = << >>
    /\ avail = NoResponse
    /\ book = [c \in Clients |-> IdleClient]

\* the availability query, the clock and the calendar's other users
Next == Tick \/ AddEvent \/ GetAvailableSlots \/ GetAvailableSlotsFailed

Spec == Init /\ [][Next]_vars

\* the booking command of concurrent clients, and the clock
NextBook ==
    \/ Tick
    \/ \E c \in Clients :
          BookStart(c) \/ BookSlot(c) \/ BookSlotInsertFailed(c) \/ BookReturn(c)

SpecBook == Init /\ [][NextBook]_vars

----------------------------------------------------------------------------
(* Properties of the availability query (under Spec) *)

\* the slots of the response: <<day, index>> pairs
Listed ==
    {dk \in (DOMAIN avail.body) \X (1..13) : dk[2] <= Len(avail.body[dk[1]].slots)}

ListedSlot(dk) == avail.body[dk[1]].slots[dk[2]]

\* minute of the day of an "HH:MM" string
Tod(part) == part.h * 60 + part.m

\* the instants the slot engine meant by a listed slot: the day and the wall
\* clock of the string, in the timezone of the grid
GridStart(dk) == Instant(combine(dk[1], Tod(ListedSlot(dk)[1]), calendar_tz(busy_slots)))

GridEnd(dk) == Instant(combine(dk[1], Tod(ListedSlot(dk)[2]), calendar_tz(busy_slots)))

\* half-open overlap of [s, e) with a busy interval, on instants
Overlaps(s, e, busy) == s < Instant(busy.end) /\ e > Instant(busy.start)

CandidateDays == utc_date(now)..(utc_date(now) + 7)

\* the working-hour windows as the claims state them: 07:00-13:00, 15:00-18:00
\* and 19:00-23:00
ClaimedWindows == {<<7 * 60, 13 * 60>>, <<15 * 60, 18 * 60>>, <<19 * 60, 23 * 60>>}

C2_LeadTime ==
    avail.status = 200 => \A dk \in Listed : GridStart(dk) >= now + 120

\* a grid built in UTC, from a first busy event given in UTC: a slot that starts
\* exactly at now + 2 hours is listed, and a step of the grid that starts later
\* than now but within the 2 hours is not
C2_Witness ==
    /\ avail.status = 200
    /\ busy_slots # << >>
    /\ calendar_tz(busy_slots) = utc_tz
    /\ \E dk \in Listed : GridStart(dk) = now + 120
    /\ \E day \in CandidateDays : \E t \in ClaimedWindows :
          LET s == Instant(combine(day, t[1], utc_tz)) IN
          /\ now < s
          /\ s < now + 120
          /\ \A dk \in Listed : GridStart(dk) # s

\* the one-hour steps of the working-hour windows, as minutes of the day
GridSteps ==
    {t \in 0..(24 * 60) :
        \E w \in ClaimedWindows :
            \E n \in 0..23 : t = w[1] + 60 * n /\ t + 60 <= w[2]}

\* a grid step of a day is kept when it is late enough and overlaps no busy
\* interval that starts on the day
Kept(day, t) ==
    LET s == Instant(combine(day, t, calendar_tz(busy_slots))) IN
    /\ s >= now + 120
    /\ \A j \in 1..Len(busy_slots) :
          busy_slots[j].start.date = day => ~Overlaps(s, s + 60, busy_slots[j])

\* the elements of a set of numbers in increasing order
Ascending(S) ==
    [i \in 1..Cardinality(S) |-> CHOOSE t \in S : Cardinality({u \in S : u < t}) = i - 1]

ExpectedSlots(day) ==
    LET keep == Ascending({t \in GridSteps : Kept(day, t)})
    IN [i \in 1..Len(keep) |->
           <<[h |-> keep[i] \div 60, m |-> keep[i] % 60],
             [h |-> (keep[i] + 60) \div 60, m |-> (keep[i] + 60) % 60]>>]

ResponseSlots(day) ==
    IF day \in DOMAIN avail.body THEN avail.body[day].slots ELSE << >>

\* C3: for each day the result is exactly the chronological sequence of the grid
\* steps that start no earlier than now + 2 hours and overlap no same-day busy
\* interval under the half-open test
C3_ExactSlots ==
    avail.status = 200 => \A day \in CandidateDays : ResponseSlots(day) = ExpectedSlots(day)

\* a busy interval ends exactly where a listed slot starts, another starts
\* exactly where a listed slot ends, and a third reaches one minute into a
\* grid step, which is not listed
C3_Witness ==
    /\ avail.status = 200
    /\ \E dk \in Listed : \E j \in 1..Len(busy_slots) :
          busy_slots[j].start.date = dk[1] /\ Instant(busy_slots[j].end) = GridStart(dk)
    /\ \E dk \in Listed : \E j \in 1..Len(busy_slots) :
          busy_slots[j].start.date = dk[1] /\ Instant(busy_slots[j].start) = GridEnd(dk)
    /\ \E day \in CandidateDays : \E t \in GridSteps : \E j \in 1..Len(busy_slots) :
          LET s == Instant(combine(day, t, calendar_tz(busy_slots))) IN
          /\ busy_slots[j].start.date = day
          /\ s >= now + 120
          /\ Instant(busy_slots[j].end) = s + 1
          /\ \A dk \in Listed : dk[1] = day => GridStart(dk) # s

\* C6: the keys of the mapping are exactly the candidate days for which the slot
\* engine returned a slot, and no entry has an empty slots list
C6_SparseMapping ==
    avail.status = 200 =>
        /\ DOMAIN avail.body =
              {d \in CandidateDays : get_free_slots(d, busy_slots, now).slots # << >>}
        /\ \A d \in DOMAIN avail.body : avail.body[d].slots # << >>

\* a day whose steps are all late enough and all busy is absent, a day whose
\* steps are all too early is absent, and another day is present
C6_Witness ==
    /\ avail.status = 200
    /\ \E d \in CandidateDays \ DOMAIN avail.body :
          \A t \in GridSteps :
              Instant(combine(d, t, calendar_tz(busy_slots))) >= now + 120
    /\ \E d \in CandidateDays \ DOMAIN avail.body :
          \A t \in GridSteps :
              Instant(combine(d, t, calendar_tz(busy_slots))) < now + 120
    /\ DOMAIN avail.body # {}

\* C9: no listed slot overlaps any fetched busy interval, whatever day the
\* interval starts on
C9_NoOverlapWithAnyBusy ==
    avail.status = 200 =>
        \A dk \in Listed : \A j \in 1..Len(busy_slots) :
            busy_slots[j].start.aware
                => ~Overlaps(GridStart(dk), GridEnd(dk), busy_slots[j])

\* C10: booking a listed slot at the same instant rebuilds the start and end
\* instants the slot engine computed, and passes the lead-time check
C10_RoundTrip ==
    avail.status = 200 =>
        \A dk \in Listed :
            LET p == parse_slot([date |-> strftime_date(dk[1]), time |-> ListedSlot(dk)])
            IN /\ ~p.raised
               /\ Instant(p.start_datetime) = GridStart(dk)
               /\ Instant(p.end_datetime) = GridEnd(dk)
               /\ ~too_close(p.start_datetime, min_bookable_time(now))

----------------------------------------------------------------------------
(* Properties of the booking command (under SpecBook) *)

\* the requests the handler took up: those past the checks of the request body
Accepted(c) == book[c].pc # "idle" /\ book[c].slots # << >>

\* the start instant a requested slot stands for: its date and clock in UTC+5:30
RequestedStart(slot) ==
    (slot.date.day * 24 * 60) + (slot.time[1].h * 60 + slot.time[1].m) - (5 * 60 + 30)

WellFormed(slot) ==
    /\ slot.date.valid
    /\ Len(slot.time) = 2
    /\ \A k \in 1..2 : slot.time[k].h \in 0..23 /\ slot.time[k].m \in 0..59

\* the slot starts before the request's now + 2 hours
TooEarly(c, slot) ==
    WellFormed(slot) /\ RequestedStart(slot) < Instant(book[c].min_bookable)

\* C4: a request with a slot before now + lead time is answered 400 and has
\* created no event, wherever the slot stands in the list (stated for requests
\* whose slots are all well formed and whose create-event calls all succeed)
C4_LeadViolationCreatesNothing ==
    \A c \in Clients :
        /\ book[c].pc = "done"
        /\ Accepted(c)
        /\ book[c].cause # "upstream"
        /\ \A k \in 1..Len(book[c].slots) : WellFormed(book[c].slots[k])
        /\ \E k \in 1..Len(book[c].slots) : TooEarly(c, book[c].slots[k])
        => book[c].status = 400 /\ book[c].created = << >>

\* C5: every input validation error (no or empty student record, no or empty
\* slot list, a malformed date or time range, a slot too early) is answered 400,
\* and 500 is answered only when a call of the calendar service failed
C5_ValidationErrorsAre400 ==
    \A c \in Clients :
        LET b == book[c] IN
        /\ b.pc = "done" /\ ~Accepted(c) => b.status = 400
        /\ b.pc = "done" /\ Accepted(c) /\ b.status # 200 =>
              LET slot == b.slots[b.i] IN
              /\ ~WellFormed(slot) \/ TooEarly(c, slot) => b.status = 400
              /\ b.status = 500 => WellFormed(slot) /\ ~TooEarly(c, slot)

\* the first slot of the request that cannot be booked: malformed or too early
\* (the number of slots plus one when there is none)
FirstBadSlot(c) ==
    LET bad == {k \in 1..Len(book[c].slots) :
                   ~WellFormed(book[c].slots[k]) \/ TooEarly(c, book[c].slots[k])}
    IN IF bad = {} THEN Len(book[c].slots) + 1
       ELSE CHOOSE k \in bad : \A j \in bad : k <= j

\* C7: slots are processed in request order and processing stops at the first
\* failing slot: the create-event calls made are those of the slots before it
\* (and of the failing slot itself when it is the call that failed), none is
\* made for a later slot, and the events of the earlier slots stay on the
\* calendar
C7_StopsAtFirstFailure ==
    \A c \in Clients :
        LET b == book[c]
            n == Len(b.created)
        IN Accepted(c) =>
            /\ b.i <= FirstBadSlot(c)
            /\ n = b.i - 1
            /\ b.calls \in {[k \in 1..n |-> k], [k \in 1..(n + 1) |-> k]}
            /\ Len(b.calls) = n + 1 <=> b.cause = "upstream"
            /\ \A k \in 1..n :
                  /\ b.created[k].date = b.slots[k].date
                  /\ b.created[k].time = b.slots[k].time
                  /\ b.created[k].id \in 1..Len(calendar)
                  /\ Instant(calendar[b.created[k].id].start)
                        = RequestedStart(b.slots[k])
            /\ b.pc = "done" =>
                  \/ b.status = 200 /\ n = Len(b.slots)
                  \/ /\ b.status # 200
                     /\ b.i <= Len(b.slots)
                     /\ b.cause = "upstream" \/ b.i = FirstBadSlot(c)

\* one request stopped at its first slot and made no call for its second; the
\* other stopped at its second slot, and the event of its first is on the calendar
C7_Witness ==
    \E c, d \in Clients :
        /\ book[c].pc = "done" /\ book[c].status # 200
        /\ Len(book[c].slots) = 2 /\ book[c].i = 1 /\ book[c].calls = << >>
        /\ WellFormed(book[c].slots[2]) /\ ~TooEarly(c, book[c].slots[2])
        /\ book[d].pc = "done" /\ book[d].status # 200
        /\ Len(book[d].slots) = 2 /\ book[d].i = 2 /\ Len(book[d].created) = 1
        /\ calendar # << >>

\* the events the calendar holds that start at the instant
EventsAt(instant) == {k \in 1..Len(calendar) : Instant(calendar[k].start) = instant}

\* the slots of the requests in hand for which an event was created
Booked == {ck \in Clients \X (1..MaxSlots) : ck[2] <= Len(book[ck[1]].created)}

BookedAt(instant) ==
    {ck \in Booked : RequestedStart(book[ck[1]].slots[ck[2]]) = instant}

\* C8: nothing stands between a booking and the calendar: every slot a request
\* has had created has an event of its own, also when other requests booked the
\* same hour, so that two requests for one hour leave two events for it
C8_EveryBookingHasItsOwnEvent ==
    /\ \A ck \in Booked :
          Cardinality(EventsAt(RequestedStart(book[ck[1]].slots[ck[2]])))
              >= Cardinality(BookedAt(RequestedStart(book[ck[1]].slots[ck[2]])))
    /\ \A ck, dj \in Booked :
          ck # dj => book[ck[1]].created[ck[2]].id # book[dj[1]].created[dj[2]].id

\* two requests for the same hour were both answered 200, and the calendar
\* holds two events for that hour
C8_Witness ==
    /\ \A c \in Clients : book[c].pc = "done" /\ book[c].status = 200
    /\ book["c1"].slots = book["c2"].slots
    /\ \E j, k \in 1..Len(calendar) :
          /\ j # k
          /\ calendar[j] = calendar[k]
          /\ Instant(calendar[j].start) = RequestedStart(book["c1"].slots[1])

====
